---- MODULE Spec2Model ----
(***************************************************************************)
(* Aircraft Landing Problem solver (vcoppe/alp): the compression engine    *)
(* (meta-separation, reachable meta-state dictionary, compress), the       *)
(* dominance key and the solve driver, as a state machine.                 *)
(*                                                                         *)
(* The problem model `Alp` (resolution/model.rs) is not among the source   *)
(* files; its operators below follow section 4.1 of the specification.     *)
(***************************************************************************)
EXTENDS Integers, Sequences, FiniteSets, TLC

\* ------------------------------------------------------------------ bounds
\* Size of the instances the pipeline is run on.
NbAircrafts == 3
NbRunways == 2
NbClasses == 2
\* Largest entry of a separation matrix.
MaxSep == 1
\* Largest gap between two consecutive target times.
MaxGap == 1
\* Largest distance latest - target.
MaxSlack == 1
\* Largest --avg-interarrival-time given to the generator.
MaxAvgInterarrival == 1

\* isize::MAX. The program's value is 2^63 - 1; the model uses the largest
\* integer TLC represents. It is only ever compared, never added to.
IsizeMax == 2147483647

\* "minus infinity" of the rewards (an infeasible continuation).
NegInf == -IsizeMax

VARIABLES
    instance,          \* AlpInstance read by Solve::solve
    n_meta_classes,    \* Solve.n_meta_classes
    class_membership,  \* AlpCompression.class_membership (k-means output)
    meta_instance,     \* AlpCompression.meta_problem.instance
    pc,                \* position in Solve::solve
    depth,             \* compute_meta_states: depth
    current,           \* compute_meta_states: current
    states,            \* AlpCompression.states (the dictionary)
    cur,               \* the original state under exploration / replay
    cur_depth,         \* number of decisions that led to cur
    cur_value,         \* reward accumulated on the way to cur
    dom,               \* a state compared with cur by the dominance filter
    dom_value,         \* reward accumulated on the way to dom
    completion,        \* Completion { best_value, is_exact } of maximize()
    best_solution,     \* solver.best_solution(), the decisions left to replay
    runways,           \* Solve::solve: runways
    out,               \* what the driver printed
    gen                \* AlpGenerator::generate: parameters, vectors under construction

inputVars == <<instance, n_meta_classes, class_membership>>
metaVars == <<meta_instance, depth, current, states>>
exploreVars == <<cur, cur_depth, cur_value>>
domVars == <<dom, dom_value>>
driverVars == <<completion, best_solution, runways, out>>
genVars == <<gen>>

vars == <<inputVars, metaVars, pc, exploreVars, domVars, driverVars, genVars>>

\* ---------------------------------------------------------------- helpers
Min(a, b) == IF a <= b THEN a ELSE b
Max(a, b) == IF a >= b THEN a ELSE b

RECURSIVE SumTo(_, _)
\* f[0] + ... + f[n-1]
SumTo(f, n) ==
    IF n = 0 THEN 0 ELSE f[n - 1] + SumTo(f, n - 1)

\* Addition of rewards, saturating at minus infinity.
AddReward(a, b) ==
    IF a = NegInf \/ b = NegInf THEN NegInf ELSE a + b

RECURSIVE MaxOf(_)
MaxOf(S) ==
    IF S = {} THEN NegInf
    ELSE LET x == CHOOSE y \in S : TRUE
         IN  Max(x, MaxOf(S \ {x}))

\* ------------------------------------------------- problem model `Alp`
\* (section 4.1 of the specification; the source file is not available)

RECURSIVE RevClassList(_, _, _)
\* aircraft of class c among 0..i, highest index first
RevClassList(pb, c, i) ==
    IF i < 0 THEN <<>>
    ELSE (IF pb.classes[i] = c THEN <<i>> ELSE <<>>) \o RevClassList(pb, c, i - 1)

\* Alp::new: next[c] lists the aircraft of class c in reverse index order
AlpNext(pb) ==
    [c \in 0 .. pb.nb_classes - 1 |-> RevClassList(pb, c, pb.nb_aircrafts - 1)]

\* next[c][rem[c] - 1]: the lowest-index remaining aircraft of class c
NextAircraft(pb, state, c) ==
    AlpNext(pb)[c][state.rem[c]]

EmptyRunway == [prev_time |-> -1, prev_class |-> -1]

InitialState(pb) ==
    [rem  |-> [c \in 0 .. pb.nb_classes - 1 |-> Len(AlpNext(pb)[c])],
     info |-> [r \in 0 .. pb.nb_runways - 1 |-> EmptyRunway]]

\* next_variable: Some(depth) while depth < N, None (-1) afterwards
NextVariable(pb, d) ==
    IF d < pb.nb_aircrafts THEN d ELSE -1

ToDecision(pb, c, r) == c * pb.nb_runways + r

FromDecision(pb, d) ==
    [class |-> d \div pb.nb_runways, runway |-> d % pb.nb_runways]

GetArrivalTime(pb, info, aircraft, runway) ==
    IF info[runway].prev_class >= 0
    THEN Max(pb.target[aircraft],
             info[runway].prev_time
               + pb.separation[info[runway].prev_class][pb.classes[aircraft]])
    ELSE pb.target[aircraft]

RemTotal(pb, state) == SumTo(state.rem, pb.nb_classes)

IsTerminal(pb, state) == RemTotal(pb, state) = 0

\* the (class, runway) decisions for_each_in_domain emits
FeasibleDecisions(pb, state) ==
    { ToDecision(pb, c, r) : <<c, r>> \in
        { p \in (0 .. pb.nb_classes - 1) \X (0 .. pb.nb_runways - 1) :
            /\ state.rem[p[1]] > 0
            /\ LET a == NextAircraft(pb, state, p[1])
               IN  GetArrivalTime(pb, state.info, a, p[2]) <= pb.latest[a] } }

\* for_each_in_domain: the feasible decisions, or the sentinel -1 when there
\* is none and the state is not terminal
ForEachInDomain(pb, state) ==
    IF FeasibleDecisions(pb, state) # {} THEN FeasibleDecisions(pb, state)
    ELSE IF IsTerminal(pb, state) THEN {}
    ELSE {-1}

\* transition: the sentinel leaves an unsatisfiable state (nothing is
\* scheduled); a decision (c, r) lands the next aircraft of c on runway r
Transition(pb, state, d) ==
    IF d = -1 THEN state
    ELSE LET cr == FromDecision(pb, d)
             a  == NextAircraft(pb, state, cr.class)
             t  == GetArrivalTime(pb, state.info, a, cr.runway)
         IN  [rem  |-> [state.rem EXCEPT ![cr.class] = @ - 1],
              info |-> [state.info EXCEPT ![cr.runway] =
                          [prev_time |-> t, prev_class |-> pb.classes[a]]]]

TransitionCost(pb, state, d) ==
    IF d = -1 THEN NegInf
    ELSE LET cr == FromDecision(pb, d)
             a  == NextAircraft(pb, state, cr.class)
         IN  - (GetArrivalTime(pb, state.info, a, cr.runway) - pb.target[a])

\* --------------------------------------------------------- compression.rs

\* compute_meta_classes: the class of each aircraft, mapped by membership
ComputeMetaClasses(pb, membership) ==
    [i \in 0 .. pb.nb_aircrafts - 1 |-> membership[pb.classes[i]]]

\* a loop body that assigns the separation of the pair instead of taking the
\* minimum with what is stored
MetaSepEntryAssign(old, s) == s

\* meta_separation[a][b].min(separation[i][j])  (the loop body)
MetaSepEntry(old, s) == Min(old, s)

RECURSIVE MetaSepLoop(_, _, _, _)
\* the two nested loops over (i, j), from pair number n on
MetaSepLoop(pb, membership, ms, n) ==
    IF n >= pb.nb_classes * pb.nb_classes THEN ms
    ELSE LET i == n \div pb.nb_classes
             j == n % pb.nb_classes
             a == membership[i]
             b == membership[j]
         IN  MetaSepLoop(pb, membership,
                 [ms EXCEPT ![a][b] = MetaSepEntry(@, pb.separation[i][j])],
                 n + 1)

\* the variant of compute_meta_separation that forces a zero diagonal
ComputeMetaSeparationZeroDiag(pb, membership, m) ==
    LET ms == MetaSepLoop(pb, membership,
                  [a \in 0 .. m - 1 |-> [b \in 0 .. m - 1 |-> IsizeMax]], 0)
    IN  [a \in 0 .. m - 1 |-> [b \in 0 .. m - 1 |-> IF a = b THEN 0 ELSE ms[a][b]]]

ComputeMetaSeparation(pb, membership, m) ==
    MetaSepLoop(pb, membership,
                [a \in 0 .. m - 1 |-> [b \in 0 .. m - 1 |-> IsizeMax]], 0)

\* the meta-instance AlpCompression::new builds
MetaInstance(pb, membership, m) ==
    [nb_classes   |-> m,
     nb_aircrafts |-> pb.nb_aircrafts,
     nb_runways   |-> pb.nb_runways,
     classes      |-> ComputeMetaClasses(pb, membership),
     target       |-> pb.target,
     latest       |-> pb.latest,
     separation   |-> ComputeMetaSeparation(pb, membership, m)]

\* (rem, prev_class per runway) and (sum of prev_time, prev_time per runway)
PrevTimes(state) == [r \in DOMAIN state.info |-> state.info[r].prev_time]
PrevClasses(state) == [r \in DOMAIN state.info |-> state.info[r].prev_class]
StateKey(state) == <<state.rem, PrevClasses(state)>>
StateEntry(state) ==
    <<SumTo(PrevTimes(state), Cardinality(DOMAIN state.info)), PrevTimes(state)>>

\* an insertion that only fills vacant keys (the Occupied arm dropped)
InsertLayerVacantOnly(map, layer) ==
    [k \in DOMAIN map \cup {StateKey(s) : s \in layer} |->
        IF k \in DOMAIN map THEN map[k]
        ELSE {StateEntry(CHOOSE x \in layer : StateKey(x) = k)}]

\* map.entry(key): insert the entry of every state of the layer
InsertLayer(map, layer) ==
    [k \in DOMAIN map \cup {StateKey(s) : s \in layer} |->
        (IF k \in DOMAIN map THEN map[k] ELSE {})
          \cup {StateEntry(s) : s \in {x \in layer : StateKey(x) = k}}]

\* the successors collected into `next`
LayerSuccessors(pb, layer) ==
    UNION { {Transition(pb, s, d) : d \in ForEachInDomain(pb, s)} : s \in layer }

\* a loop that advances the depth by two per layer
NextDepthSkip(d) == d + 2

\* depth += 1
NextDepth(d) == d + 1

\* ---- compress

\* rem[class_membership[class]] += r
CompressRem(state, membership, k, m) ==
    [a \in 0 .. m - 1 |->
        SumTo([c \in 0 .. k - 1 |-> IF membership[c] = a THEN state.rem[c] ELSE 0], k)]

CompressClasses(state, membership) ==
    [r \in DOMAIN state.info |->
        IF state.info[r].prev_class = -1 THEN -1
        ELSE membership[state.info[r].prev_class]]

RECURSIVE VecLess(_, _, _, _)
\* Vec<isize> ordering: lexicographic from position i on (equal lengths n)
VecLess(u, v, i, n) ==
    IF i >= n THEN FALSE
    ELSE IF u[i] # v[i] THEN u[i] < v[i]
    ELSE VecLess(u, v, i + 1, n)

\* (isize, Vec<isize>) tuple ordering
EntryLess(e, f) ==
    \/ e[1] < f[1]
    \/ e[1] = f[1] /\ VecLess(e[2], f[2], 0, Cardinality(DOMAIN e[2]))

\* the range with an excluded upper bound
EntryRangeExcluded(infos, probe) ==
    {e \in infos : EntryLess(e, probe)}

\* infos.range((Unbounded, Included(probe)))
EntryRange(infos, probe) ==
    {e \in infos : e = probe \/ EntryLess(e, probe)}

\* the inner loop over the runways: state.info[r].prev_time < times[r] breaks
IsDominated(state, times, nb_runways) ==
    \A r \in 0 .. nb_runways - 1 : ~ (state.info[r].prev_time < times[r])

\* the range walked forwards: the least entry first
ForwardFirst(range) ==
    CHOOSE e \in range : \A f \in range : f = e \/ EntryLess(e, f)

\* range.rev(): the entry visited first
RevFirst(range) ==
    CHOOSE e \in range : \A f \in range : f = e \/ EntryLess(f, e)

RECURSIVE FirstDominated(_, _, _)
\* the for loop over range.rev(): the first dominated entry, <<>> if none
FirstDominated(range, state, nb_runways) ==
    IF range = {} THEN <<>>
    ELSE LET e == RevFirst(range)
         IN  IF IsDominated(state, e[2], nb_runways) THEN e
             ELSE FirstDominated(range \ {e}, state, nb_runways)

\* AlpCompression::compress
Compress(dict, pb, membership, m, state) ==
    LET rem   == CompressRem(state, membership, pb.nb_classes, m)
        key   == <<rem, CompressClasses(state, membership)>>
        probe == StateEntry(state)
    IN  IF key \in DOMAIN dict
        THEN LET e == FirstDominated(EntryRange(dict[key], probe), state,
                                     pb.nb_runways)
             IN  IF e # <<>>
                 THEN [rem  |-> key[1],
                       info |-> [r \in 0 .. pb.nb_runways - 1 |->
                                   [prev_time |-> e[2][r], prev_class |-> key[2][r]]]]
                 ELSE [rem |-> key[1], info |-> <<>>]
        ELSE [rem |-> key[1], info |-> <<>>]

\* ----------------------------------------------------------- dominance.rs

\* AlpKey::eq: rem equal, and prev_class equal on the zipped runway entries
KeyEq(s1, s2) ==
    /\ s1.rem = s2.rem
    /\ \A r \in DOMAIN s1.info \cap DOMAIN s2.info :
          s1.info[r].prev_class = s2.info[r].prev_class

\* AlpKey::hash: what is fed to the hasher, in order
KeyHash(s) == <<s.rem, PrevClasses(s)>>

\* AlpDominance::nb_dimensions
NbDimensions(state) == Cardinality(DOMAIN state.info)

\* a coordinate without the sign change
GetCoordinatePlain(state, i) == state.info[i].prev_time

\* AlpDominance::get_coordinate
GetCoordinate(state, i) == - state.info[i].prev_time

\* s2 dominates s1: same key, every coordinate of s2 at least that of s1
Dominates(s2, s1) ==
    /\ KeyEq(s1, s2)
    /\ \A i \in 0 .. NbDimensions(s1) - 1 :
          GetCoordinate(s2, i) >= GetCoordinate(s1, i)

\* ------------------------------------------------------- instances (inputs)

\* An instance file: target non-decreasing, latest >= target and
\* non-decreasing within a class, separation non-negative.
MkInstance(n, r, k, cl, gap, slack, sep) ==
    [nb_classes   |-> k,
     nb_aircrafts |-> n,
     nb_runways   |-> r,
     classes      |-> cl,
     target       |-> [i \in 0 .. n - 1 |-> i * gap],
     latest       |-> [i \in 0 .. n - 1 |-> i * gap + slack[cl[i]]],
     separation   |-> sep]

SepMatrices(k) == [0 .. k - 1 -> [0 .. k - 1 -> 0 .. MaxSep]]

Instances(n, r, k) ==
    { MkInstance(n, r, k, cl, gap, slack, sep) :
        cl \in [0 .. n - 1 -> 0 .. k - 1],
        gap \in 0 .. MaxGap,
        slack \in [0 .. k - 1 -> 0 .. MaxSlack],
        sep \in SepMatrices(k) }

\* what k-means may return: any assignment of the classes to m clusters
Memberships(k, m) == [0 .. k - 1 -> 0 .. m - 1]

NoInstance == [nb_classes |-> 0, nb_aircrafts |-> 0, nb_runways |-> 0,
               classes |-> <<>>, target |-> <<>>, latest |-> <<>>,
               separation |-> <<>>]
NoState == [rem |-> <<>>, info |-> <<>>]
NoOutput == [printed |-> FALSE]
\* Option<T>: None, Some(x)
None == <<>>
Some(x) == <<x>>
NoCompletion == [best_value |-> None, is_exact |-> FALSE]

\* the variables a specification does not use
MetaIdle ==
    /\ meta_instance = NoInstance
    /\ depth = 0
    /\ current = {}
    /\ states = <<>>
DomIdle ==
    /\ dom = NoState
    /\ dom_value = 0
\* the generator is a separate command of the program
NoGen == [i |-> -1]
GenIdle == gen = NoGen
DriverIdle ==
    /\ completion = NoCompletion
    /\ best_solution = None
    /\ runways = <<>>
    /\ out = NoOutput

\* ------------------------------------------- Solve::solve: the compressor
\* and the states the solver explores

Init ==
    /\ instance \in Instances(NbAircrafts, NbRunways, NbClasses)
    /\ n_meta_classes \in 1 .. NbClasses
    /\ class_membership \in Memberships(NbClasses, n_meta_classes)
    /\ pc = "new"
    /\ cur = InitialState(instance)
    /\ cur_depth = 0
    /\ cur_value = 0
    /\ MetaIdle
    /\ DomIdle
    /\ DriverIdle
    /\ GenIdle

\* AlpCompression::new up to the loop of compute_meta_states
New ==
    /\ pc = "new"
    /\ meta_instance' = MetaInstance(instance, class_membership, n_meta_classes)
    /\ depth' = 0
    /\ current' = {InitialState(meta_instance')}
    /\ states' = <<>>
    /\ pc' = "meta"
    /\ UNCHANGED <<genVars, inputVars, exploreVars, domVars, driverVars>>

\* one iteration of `while let Some(var) = next_variable(depth, ..)`
MetaLayer ==
    /\ pc = "meta"
    /\ NextVariable(meta_instance, depth) # -1
    /\ states' = InsertLayer(states, current)
    /\ current' = LayerSuccessors(meta_instance, current)
    /\ depth' = NextDepth(depth)
    /\ UNCHANGED <<genVars, inputVars, meta_instance, pc, exploreVars, domVars, driverVars>>

\* the loop ends, compute_meta_states returns the map
MetaDone ==
    /\ pc = "meta"
    /\ NextVariable(meta_instance, depth) = -1
    /\ pc' = "explore"
    /\ UNCHANGED <<genVars, inputVars, metaVars, exploreVars, domVars, driverVars>>

\* the solver expands cur by one decision of its domain
Decide(d) ==
    /\ pc = "explore"
    /\ NextVariable(instance, cur_depth) # -1
    /\ d \in ForEachInDomain(instance, cur)
    /\ cur' = Transition(instance, cur, d)
    /\ cur_value' = AddReward(cur_value, TransitionCost(instance, cur, d))
    /\ cur_depth' = cur_depth + 1
    /\ UNCHANGED <<genVars, inputVars, metaVars, pc, domVars, driverVars>>

Next ==
    \/ New
    \/ MetaLayer
    \/ MetaDone
    \/ \E d \in -1 .. NbClasses * NbRunways - 1 : Decide(d)

Spec == Init /\ [][Next]_vars

\* ----------------------------------------- the dominance filter at work
\* cur is a state of the solver, dom a state the dominance checker compares
\* it with; after the comparison both are completed with the same decisions

\* the states with the rem of `state` that AlpDominance ranks at least as
\* high as `state` (a used runway has a landing time >= 0)
DomCandidates(pb, state) ==
    LET times == {state.info[r].prev_time : r \in DOMAIN state.info}
        infos == [DOMAIN state.info ->
                     [prev_time : -1 .. MaxOf(times),
                      prev_class : -1 .. pb.nb_classes - 1]]
    IN  {s \in [rem : {state.rem}, info : infos] :
            /\ \A r \in DOMAIN s.info :
                  (s.info[r].prev_class = -1) <=> (s.info[r].prev_time = -1)
            /\ Dominates(s, state)}

InitDom ==
    /\ instance \in Instances(NbAircrafts, NbRunways, NbClasses)
    /\ n_meta_classes = 1
    /\ class_membership = [c \in 0 .. NbClasses - 1 |-> 0]
    /\ pc = "dominance"
    /\ cur = InitialState(instance)
    /\ cur_depth = 0
    /\ cur_value = 0
    /\ MetaIdle
    /\ DomIdle
    /\ DriverIdle
    /\ GenIdle

\* the dominance checker finds that s dominates cur
DomPick(s) ==
    /\ pc = "dominance"
    /\ dom = NoState
    /\ s \in DomCandidates(instance, cur)
    /\ dom' = s
    /\ dom_value' = 0
    /\ cur_value' = 0
    /\ UNCHANGED <<genVars, inputVars, metaVars, pc, cur, cur_depth, driverVars>>

\* one more decision of a feasible completion of cur, applied to dom as well
\* (dom_value falls to -infinity when dom cannot take it)
DomDecide(d) ==
    /\ pc = "dominance"
    /\ d \in FeasibleDecisions(instance, cur)
    /\ cur' = Transition(instance, cur, d)
    /\ cur_value' = AddReward(cur_value, TransitionCost(instance, cur, d))
    /\ cur_depth' = cur_depth + 1
    /\ IF dom = NoState
       THEN UNCHANGED domVars
       ELSE IF d \in FeasibleDecisions(instance, dom)
            THEN /\ dom' = Transition(instance, dom, d)
                 /\ dom_value' = AddReward(dom_value, TransitionCost(instance, dom, d))
            ELSE /\ dom' = dom
                 /\ dom_value' = NegInf
    /\ UNCHANGED <<genVars, inputVars, metaVars, pc, driverVars>>

NextDom ==
    \/ \E s \in DomCandidates(instance, cur) : DomPick(s)
    \/ \E d \in 0 .. NbClasses * NbRunways - 1 : DomDecide(d)

SpecDom == InitDom /\ [][NextDom]_vars

\* ------------------------------------ Solve::solve: maximize, replay, print

RECURSIVE CompleteSolutions(_, _)
\* the <<reward, decisions>> of every feasible completion of `state`
CompleteSolutions(pb, state) ==
    IF IsTerminal(pb, state) THEN {<<0, <<>>>>}
    ELSE UNION { { <<AddReward(TransitionCost(pb, state, d), x[1]), <<d>> \o x[2]>> :
                     x \in CompleteSolutions(pb, Transition(pb, state, d)) } :
                 d \in FeasibleDecisions(pb, state) }

\* what solver.maximize() and solver.best_solution() may answer: the search
\* ran to completion (exact) or the TimeBudget cut it off
SolverAnswers(pb) ==
    LET sols == CompleteSolutions(pb, InitialState(pb))
        best == MaxOf({x[1] : x \in sols})
        none == [completion |-> [best_value |-> None, is_exact |-> TRUE],
                 solution |-> None]
        found(x, exact) == [completion |-> [best_value |-> Some(x[1]), is_exact |-> exact],
                            solution |-> Some(x[2])]
    IN  (IF sols = {} THEN {none}
         ELSE {found(x, TRUE) : x \in {y \in sols : y[1] = best}})
        \cup {[none EXCEPT !.completion.is_exact = FALSE]}
        \cup {found(x, FALSE) : x \in sols}

\* best_value.map(|v| -v).unwrap_or(isize::MAX)
NegatedBestValue(bv) == IF bv = None THEN IsizeMax ELSE - bv[1]

\* the permutations of the runway indices S
RunwayPermutations(S) == {p \in [S -> S] : \A x \in S : \E y \in S : p[y] = x}

RECURSIVE ScheduleLess(_, _)
\* Vec<(isize, usize)> ordering: lexicographic, a strict prefix first
ScheduleLess(u, v) ==
    IF v = <<>> THEN FALSE
    ELSE IF u = <<>> THEN TRUE
    ELSE \/ Head(u)[1] < Head(v)[1]
         \/ Head(u)[1] = Head(v)[1] /\ Head(u)[2] < Head(v)[2]
         \/ Head(u) = Head(v) /\ ScheduleLess(Tail(u), Tail(v))

\* the derived ordering of (RunwayState, Vec<(isize, usize)>)
RunwayLeq(x, y) ==
    \/ x.state.prev_time < y.state.prev_time
    \/ /\ x.state.prev_time = y.state.prev_time
       /\ \/ x.state.prev_class < y.state.prev_class
          \/ /\ x.state.prev_class = y.state.prev_class
             /\ (x.schedule = y.schedule \/ ScheduleLess(x.schedule, y.schedule))

\* runways.sort_unstable()
SortRunways(rw) ==
    LET p == CHOOSE q \in RunwayPermutations(DOMAIN rw) :
                 \A i \in DOMAIN rw, j \in DOMAIN rw :
                     i < j => RunwayLeq(rw[q[i]], rw[q[j]])
    IN  [i \in DOMAIN rw |-> rw[p[i]]]

InitDriver ==
    /\ instance \in Instances(NbAircrafts, NbRunways, NbClasses)
    /\ n_meta_classes = 1
    /\ class_membership = [c \in 0 .. NbClasses - 1 |-> 0]
    /\ pc = "maximize"
    /\ cur = InitialState(instance)
    /\ cur_depth = 0
    /\ cur_value = 0
    /\ MetaIdle
    /\ DomIdle
    /\ DriverIdle
    /\ GenIdle

\* solver.maximize(), then the set-up of the replay
Maximize ==
    /\ pc = "maximize"
    /\ \E a \in SolverAnswers(instance) :
          /\ completion' = a.completion
          /\ best_solution' = a.solution
    /\ runways' = [r \in 0 .. instance.nb_runways - 1 |->
                      [state |-> EmptyRunway, schedule |-> <<>>]]
    /\ cur' = InitialState(instance)
    /\ pc' = "replay"
    /\ UNCHANGED <<genVars, inputVars, metaVars, cur_depth, cur_value, domVars, out>>

\* one iteration of `for decision in decisions`; problem.next[class] is
\* indexed with cur.rem[class], which panics when it is past the end
ReplayStep ==
    /\ pc = "replay"
    /\ best_solution # None
    /\ best_solution[1] # <<>>
    /\ LET decision == Head(best_solution[1])
           class == FromDecision(instance, decision).class
           runway == FromDecision(instance, decision).runway
           index == cur.rem[class]
           nexts == AlpNext(instance)[class]
       IN  IF index >= Len(nexts)
           THEN /\ pc' = "panicked"
                /\ UNCHANGED <<cur, cur_depth, best_solution, runways>>
           ELSE LET aircraft == nexts[index + 1]
                    arrival == GetArrivalTime(instance, cur.info, aircraft, runway)
                    landed == [state |-> [prev_time |-> arrival,
                                          prev_class |-> instance.classes[aircraft]],
                               schedule |-> Append(runways[runway].schedule,
                                                   <<arrival, aircraft>>)]
                IN  /\ runways' = SortRunways([runways EXCEPT ![runway] = landed])
                    /\ cur' = Transition(instance, cur, decision)
                    /\ cur_depth' = cur_depth + 1
                    /\ best_solution' = Some(Tail(best_solution[1]))
                    /\ pc' = pc
    /\ UNCHANGED <<genVars, inputVars, metaVars, cur_value, domVars, completion, out>>

\* the results block
PrintResults ==
    /\ pc = "replay"
    /\ IF best_solution = None THEN TRUE ELSE best_solution[1] = <<>>
    /\ out' = [printed |-> TRUE,
               is_exact |-> completion.is_exact,
               best_value |-> NegatedBestValue(completion.best_value),
               schedules |-> [r \in DOMAIN runways |-> runways[r].schedule]]
    /\ pc' = "done"
    /\ UNCHANGED <<genVars, inputVars, metaVars, exploreVars, domVars,
                   completion, best_solution, runways>>

NextDriver ==
    \/ Maximize
    \/ ReplayStep
    \/ PrintResults

SpecDriver == InitDriver /\ [][NextDriver]_vars

\* ------------------------------------------------- AlpGenerator::generate

\* a + b on isize, for b >= 0, overflows
Overflows(a, b) == a > 0 /\ b > IsizeMax - a

\* a + b on isize, for b >= 0, wrapping around (a build without overflow checks)
WrapAdd(a, b) ==
    IF Overflows(a, b) THEN (a - IsizeMax - 1) + (b - IsizeMax - 1) ELSE a + b

\* (- rand.sample(rng).ln() * avg).round() as isize, for a sample of [0, 1):
\* a non-negative integer, isize::MAX for the sample 0.0 (ln = -inf)
TargetDraws(avg) ==
    IF avg = 0 THEN {0} ELSE (0 .. MaxGap) \cup {IsizeMax}

RECURSIVE TargetAt(_, _)
\* target[i] of generate_target, incs[i] being the i-th draw
TargetAt(incs, i) ==
    IF i = 0 THEN 0 ELSE WrapAdd(TargetAt(incs, i - 1), incs[i])

\* some addition of generate_target overflows
TargetOverflows(incs) ==
    \E i \in DOMAIN incs : Overflows(TargetAt(incs, i - 1), incs[i])

\* nb_classes_per_cluster and members: the cluster of class t
ClusterSize(k, c, a) == (k \div c) + (IF a < k % c THEN 1 ELSE 0)
ClusterMembers(k, c, a) ==
    {t \in 0 .. k - 1 :
        /\ SumTo([b \in 0 .. c - 1 |-> ClusterSize(k, c, b)], a) <= t
        /\ t < SumTo([b \in 0 .. c - 1 |-> ClusterSize(k, c, b)], a + 1)}

\* abs_diff
AbsDiff(x, y) == IF x >= y THEN x - y ELSE y - x

\* the matrices generate_separation_costs can return: positions_a is drawn
\* once per cluster a, positions_b anew for every pair (a, b)
GeneratedSeparations(k, c) ==
    LET pos(a) == [ClusterMembers(k, c, a) -> 0 .. MaxSep]
    IN  {sep \in SepMatrices(k) :
            \A a \in 0 .. c - 1 :
                \E pa \in pos(a) :
                    \A b \in 0 .. c - 1 :
                        IF a = b
                        THEN \A ti \in ClusterMembers(k, c, a), tj \in ClusterMembers(k, c, a) :
                                sep[ti][tj] = AbsDiff(pa[ti], pa[tj])
                        ELSE \E pb \in pos(b) :
                                \A ti \in ClusterMembers(k, c, a), tj \in ClusterMembers(k, c, b) :
                                    sep[ti][tj] = AbsDiff(pa[ti], pb[tj])}

\* an acceptance test that takes every draw
AcceptAny(end, last) == TRUE

\* if end >= last[classes[i]]
AcceptEnd(end, last) == end >= last

\* the generator's flags, the classes drawn by generate_classes, and whether
\* the build checks integer overflow
InitGen ==
    /\ gen \in [avg : 0 .. MaxAvgInterarrival,
                nb_clusters : 1 .. NbClasses,
                overflow_checks : BOOLEAN,
                classes : [0 .. NbAircrafts - 1 -> 0 .. NbClasses - 1],
                target : {<<>>},
                latest : {<<>>},
                last : {[c \in 0 .. NbClasses - 1 |-> 0]},
                i : {0}]
    /\ instance = NoInstance
    /\ n_meta_classes = 1
    /\ class_membership = [c \in 0 .. NbClasses - 1 |-> 0]
    /\ pc = "generate"
    /\ cur = NoState
    /\ cur_depth = 0
    /\ cur_value = 0
    /\ MetaIdle
    /\ DomIdle
    /\ DriverIdle

\* generate_target
GenerateTarget ==
    /\ pc = "generate"
    /\ \E incs \in [1 .. NbAircrafts - 1 -> TargetDraws(gen.avg)] :
          IF gen.overflow_checks /\ TargetOverflows(incs)
          THEN /\ pc' = "gen_panicked"
               /\ gen' = gen
          ELSE /\ pc' = "latest"
               /\ gen' = [gen EXCEPT !.target =
                             [i \in 0 .. NbAircrafts - 1 |-> TargetAt(incs, i)]]
    /\ UNCHANGED <<inputVars, metaVars, exploreVars, domVars, driverVars>>

\* generate_latest: Uniform::new(0, 10 * avg) panics on an empty range
GenerateLatestAbort ==
    /\ pc = "latest"
    /\ 10 * gen.avg <= 0
    /\ pc' = "gen_panicked"
    /\ UNCHANGED <<genVars, inputVars, metaVars, exploreVars, domVars, driverVars>>

\* generate_latest: one pass of the inner `loop` for aircraft gen.i
GenerateLatestDraw(d) ==
    /\ pc = "latest"
    /\ gen.i < NbAircrafts
    /\ d \in 0 .. 10 * gen.avg - 1
    /\ LET t == gen.target[gen.i]
           class == gen.classes[gen.i]
           end == WrapAdd(t, d)
       IN  IF gen.overflow_checks /\ Overflows(t, d)
           THEN /\ pc' = "gen_panicked"
                /\ gen' = gen
           ELSE /\ pc' = pc
                /\ IF AcceptEnd(end, gen.last[class])
                   THEN gen' = [gen EXCEPT !.latest = Append(@, end),
                                           !.last[class] = end,
                                           !.i = @ + 1]
                   ELSE gen' = gen
    /\ UNCHANGED <<inputVars, metaVars, exploreVars, domVars, driverVars>>

\* generate: the instance is assembled and written
GenerateEmit ==
    /\ pc = "latest"
    /\ 10 * gen.avg > 0
    /\ gen.i = NbAircrafts
    /\ \E sep \in GeneratedSeparations(NbClasses, gen.nb_clusters) :
          instance' = [nb_classes   |-> NbClasses,
                       nb_aircrafts |-> NbAircrafts,
                       nb_runways   |-> NbRunways,
                       classes      |-> gen.classes,
                       target       |-> gen.target,
                       latest       |-> [i \in 0 .. NbAircrafts - 1 |-> gen.latest[i + 1]],
                       separation   |-> sep]
    /\ pc' = "generated"
    /\ UNCHANGED <<genVars, n_meta_classes, class_membership, metaVars,
                   exploreVars, domVars, driverVars>>

NextGen ==
    \/ GenerateTarget
    \/ GenerateLatestAbort
    \/ \E d \in 0 .. 10 * MaxAvgInterarrival - 1 : GenerateLatestDraw(d)
    \/ GenerateEmit

SpecGen == InitGen /\ [][NextGen]_vars

\* ------------------------------------------------------------- properties

RECURSIVE OptRemaining(_, _)
\* the best total reward of a feasible completion from `state`
\* (NegInf when there is none)
OptRemaining(pb, state) ==
    IF IsTerminal(pb, state) THEN 0
    ELSE MaxOf({ AddReward(TransitionCost(pb, state, d),
                           OptRemaining(pb, Transition(pb, state, d))) :
                 d \in FeasibleDecisions(pb, state) })

\* compress(cur), with the compressor AlpCompression::new built
Compressed ==
    Compress(states, instance, class_membership, n_meta_classes, cur)

\* C1: for every original state reachable through in-domain decisions, the
\* optimal remaining reward of the meta-problem from compress(s) is at least
\* the optimal remaining reward of the original problem from s.
C1_Admissible ==
    (pc = "explore" /\ Compressed.info # <<>>) =>
        OptRemaining(meta_instance, Compressed) >= OptRemaining(instance, cur)

\* the runway vector of `state`, permuted by p
Permuted(state, p) ==
    [rem |-> state.rem, info |-> [r \in DOMAIN state.info |-> state.info[p[r]]]]

\* C4: any permutation of the runway vector of a state yields an equal
\* dominance key (AlpKey equality and hash).
C4_KeyCanonical ==
    pc = "explore" =>
        \A p \in RunwayPermutations(DOMAIN cur.info) :
            /\ KeyEq(Permuted(cur, p), cur)
            /\ KeyHash(Permuted(cur, p)) = KeyHash(cur)

\* C5 (as stated): every state reached by d successive in-domain decisions,
\* those held in `current` at depth d and the explored state after d
\* decisions alike, satisfies sum of rem + d = N.
C5_DepthInvariant ==
    /\ pc = "meta" =>
          \A s \in current : RemTotal(meta_instance, s) + depth = instance.nb_aircrafts
    /\ pc = "explore" =>
          RemTotal(instance, cur) + cur_depth = instance.nb_aircrafts

\* C5 (amended): sum of rem + d = N holds after d (class, runway) decisions;
\* a sentinel decision adds to the depth and schedules nothing, so a state
\* reached through one is a dead end with sum of rem + d > N.
C5_DepthInvariantScheduled ==
    /\ pc = "meta" =>
          \A s \in current :
              \/ RemTotal(meta_instance, s) + depth = instance.nb_aircrafts
              \/ /\ FeasibleDecisions(meta_instance, s) = {}
                 /\ RemTotal(meta_instance, s) + depth > instance.nb_aircrafts
    /\ pc = "explore" =>
          IF cur_value # NegInf
          THEN RemTotal(instance, cur) + cur_depth = instance.nb_aircrafts
          ELSE /\ FeasibleDecisions(instance, cur) = {}
               /\ RemTotal(instance, cur) + cur_depth > instance.nb_aircrafts

\* C5 witness: the enumeration holds a last layer of terminal meta-states
C5_Witness ==
    /\ pc = "meta"
    /\ depth = instance.nb_aircrafts
    /\ \E s \in current : IsTerminal(meta_instance, s)

\* the sum of f over the finite set S
RECURSIVE SumOver(_, _)
SumOver(S, f) ==
    IF S = {} THEN 0
    ELSE LET x == CHOOSE y \in S : TRUE
         IN  f[x] + SumOver(S \ {x}, f)

\* the classes clustered into meta-class a
Members(a) == {c \in DOMAIN class_membership : class_membership[c] = a}

\* the key compress looks cur up under
ProjectedKey ==
    << [a \in 0 .. n_meta_classes - 1 |-> SumOver(Members(a), cur.rem)],
       [r \in DOMAIN cur.info |->
           IF cur.info[r].prev_class = -1 THEN -1
           ELSE class_membership[cur.info[r].prev_class]] >>

\* the entries stored under the projected key whose prev_time is <= that of
\* cur on every runway
DominatedEntries ==
    IF ProjectedKey \in DOMAIN states
    THEN {e \in states[ProjectedKey] :
            \A r \in DOMAIN cur.info : e[2][r] <= cur.info[r].prev_time}
    ELSE {}

\* (sum, times) <= (sum', times') lexicographically
LexLeq(e, f) ==
    \/ e[1] < f[1]
    \/ /\ e[1] = f[1]
       /\ \/ e[2] = f[2]
          \/ \E i \in DOMAIN e[2] :
                /\ e[2][i] < f[2][i]
                /\ \A j \in DOMAIN e[2] : j < i => e[2][j] = f[2][j]

\* C7: when compress(s) is not the sentinel, its rem is s.rem summed per
\* meta-class, its prev_class per runway is the membership of that of s (-1
\* for an empty runway), and its prev_time vector is an entry stored under
\* that key, <= s on every runway, and the greatest such entry in the
\* lexicographic (sum, times) order.
C7_CompressMatch ==
    (pc = "explore" /\ Compressed.info # <<>>) =>
        /\ Compressed.rem = ProjectedKey[1]
        /\ PrevClasses(Compressed) = ProjectedKey[2]
        /\ StateEntry(Compressed) \in DominatedEntries
        /\ \A e \in DominatedEntries : LexLeq(e, StateEntry(Compressed))

\* C7 witness: compress chose among several dominated entries
C7_Witness ==
    /\ pc = "explore"
    /\ Compressed.info # <<>>
    /\ Cardinality(DominatedEntries) >= 2

\* C8: compress(s) is the sentinel (empty info, projected rem) exactly when
\* no entry under the projected key is <= s on every runway.
C8_Sentinel ==
    pc = "explore" =>
        /\ Compressed.info = <<>> <=> DominatedEntries = {}
        /\ Compressed.info = <<>> => Compressed.rem = ProjectedKey[1]

\* C8 witness: a state with aircraft left has no dominated entry and
\* compress answers with the sentinel
C8_Witness ==
    /\ pc = "explore"
    /\ ~IsTerminal(instance, cur)
    /\ DominatedEntries = {}
    /\ Compressed.info = <<>>

RECURSIVE ReachableAt(_, _)
\* the states d in-domain decisions lead to from the initial state
ReachableAt(pb, d) ==
    IF d = 0 THEN {InitialState(pb)}
    ELSE UNION { {Transition(pb, s, x) : x \in ForEachInDomain(pb, s)} :
                 s \in ReachableAt(pb, d - 1) }

\* (key, entry) pairs of the dictionary and of the meta-states of depth <= n
DictPairs == UNION { {<<k, e>> : e \in states[k]} : k \in DOMAIN states }
ReachablePairs(n) ==
    UNION { {<<StateKey(s), StateEntry(s)>> : s \in ReachableAt(meta_instance, d)} :
            d \in 0 .. n }

\* C10 (as stated): after compute_meta_states the dictionary holds exactly
\* the entries of the meta-states reachable at depths 0 .. N.
C10_DictionaryComplete ==
    pc = "explore" => DictPairs = ReachablePairs(instance.nb_aircrafts)

\* C10 (amended): it holds exactly the entries of the meta-states reachable
\* at depths 0 .. N-1; the last layer (depth N) is never inserted.
C10_DictionaryBelowN ==
    pc = "explore" => DictPairs = ReachablePairs(instance.nb_aircrafts - 1)

\* C10 witness: a key of the finished dictionary holds several entries
C10_Witness ==
    /\ pc = "explore"
    /\ \E k \in DOMAIN states : Cardinality(states[k]) >= 2

\* ---- the meta-separation AlpCompression::new computes

MetaClasses == 0 .. n_meta_classes - 1
Classes == 0 .. instance.nb_classes - 1

\* x is the least separation over the pairs of Members(a) x Members(b)
IsMinOver(x, a, b) ==
    /\ \E c \in Members(a), c2 \in Members(b) : x = instance.separation[c][c2]
    /\ \A c \in Members(a), c2 \in Members(b) : x <= instance.separation[c][c2]

\* C2: for all original classes c, c', the meta-separation of their
\* meta-classes is at most sep[c][c']; and for meta-classes a, b that both
\* have members it equals the minimum of sep over Members(a) x Members(b).
C2_MetaSeparation ==
    pc # "new" =>
        /\ \A c \in Classes, c2 \in Classes :
              meta_instance.separation[class_membership[c]][class_membership[c2]]
                 <= instance.separation[c][c2]
        /\ \A a \in MetaClasses, b \in MetaClasses :
              (Members(a) # {} /\ Members(b) # {}) =>
                  IsMinOver(meta_instance.separation[a][b], a, b)

\* C2 witness: a meta-class pair whose separation is strictly below that of
\* one of the class pairs merged into it
C2_Witness ==
    /\ pc # "new"
    /\ \E c \in Classes, c2 \in Classes :
          meta_instance.separation[class_membership[c]][class_membership[c2]]
             < instance.separation[c][c2]

\* C9 as stated: the meta-instance has sep'[a][a] = 0 for every meta-class a.
C9_ZeroDiagonal ==
    pc # "new" =>
        \A a \in MetaClasses : meta_instance.separation[a][a] = 0

\* C9: the diagonal is not forced to zero: sep'[a][a] is the minimum of
\* sep[c][c'] over the members c, c' of a, and the initial value isize::MAX
\* when a has no member.
C9_DiagonalIsMin ==
    pc # "new" =>
        \A a \in MetaClasses :
            IF Members(a) = {}
            THEN meta_instance.separation[a][a] = IsizeMax
            ELSE IsMinOver(meta_instance.separation[a][a], a, a)

\* C9 witness: a meta-class with members and a positive diagonal entry
C9_Witness ==
    /\ pc # "new"
    /\ \E a \in MetaClasses :
          /\ Members(a) # {}
          /\ meta_instance.separation[a][a] > 0

\* ---- dominance and reward

\* C3: when s' dominates s, the decisions of any feasible completion of s
\* are feasible from s' as well and earn at least the same reward.
C3_DominanceReward ==
    (pc = "dominance" /\ dom # NoState) =>
        /\ dom_value # NegInf
        /\ dom_value >= cur_value
        /\ dom.rem = cur.rem

\* C3 witness: a completion of s that earns strictly more from a different
\* state s' that dominates s
C3_Witness ==
    /\ pc = "dominance"
    /\ dom # NoState
    /\ IsTerminal(instance, cur)
    /\ dom_value > cur_value

\* ---- the value the driver reports

\* the instance has a complete schedule within the latest constraints
Feasible == CompleteSolutions(instance, InitialState(instance)) # {}

Listed ==
    {<<r, k>> : r \in DOMAIN runways, k \in 1 .. NbAircrafts} \cap
    UNION {{<<r, k>> : k \in DOMAIN runways[r].schedule} : r \in DOMAIN runways}

C12_GeneratedLatest ==
    pc = "generated" =>
        /\ \A i \in 0 .. instance.nb_aircrafts - 1 :
              instance.latest[i] >= instance.target[i]
        /\ \A i \in 0 .. instance.nb_aircrafts - 1, j \in 0 .. instance.nb_aircrafts - 1 :
              (i < j /\ instance.classes[i] = instance.classes[j]) =>
                  instance.latest[i] <= instance.latest[j]

\* C12 witness: a generated instance in which a draw of 0 for a later
\* aircraft of the class would have fallen below an earlier latest
C12_Witness ==
    /\ pc = "generated"
    /\ \E i \in 0 .. instance.nb_aircrafts - 1, j \in 0 .. instance.nb_aircrafts - 1 :
          /\ i < j
          /\ instance.classes[i] = instance.classes[j]
          /\ instance.target[j] < instance.latest[i]

====
